---- MODULE Spec2Model ----
(***************************************************************************)
(* Comparison and prefix predicates on encrypted ASCII strings             *)
(* (tfhe/examples/fhe_strings/server_key/comparisons.rs).                  *)
(*                                                                         *)
(* A ciphertext is modelled by the 8-bit plaintext it encrypts; every      *)
(* homomorphic primitive is modelled by what it computes on plaintexts.    *)
(* One behaviour is one call of one public function: Init draws the        *)
(* function and its operands, the function's action runs it to completion. *)
(***************************************************************************)
EXTENDS Integers, Sequences, FiniteSets, TLC

\* Largest buffer length (content.len(), str.len(), slice length) explored.
MaxLen == 3

\* The non-zero plaintext bytes explored (the tests use 97.., i.e. 'a'..).
Chars == {97, 98}

\* Plaintext bytes of a buffer position: a character or the padding zero.
Bytes == Chars \cup {0}

Min(a, b) == IF a < b THEN a ELSE b

-----------------------------------------------------------------------------
(* The homomorphic integer interface, on 8-bit plaintexts.                 *)

create_zero == 0

create_true == 1

\* Bitwise AND and OR of two 8-bit values, one term per bit.
bitand(a, b) ==
    (IF a % 2 = 1 /\ b % 2 = 1 THEN 1 ELSE 0)
    + (IF (a \div 2) % 2 = 1 /\ (b \div 2) % 2 = 1 THEN 2 ELSE 0)
    + (IF (a \div 4) % 2 = 1 /\ (b \div 4) % 2 = 1 THEN 4 ELSE 0)
    + (IF (a \div 8) % 2 = 1 /\ (b \div 8) % 2 = 1 THEN 8 ELSE 0)
    + (IF (a \div 16) % 2 = 1 /\ (b \div 16) % 2 = 1 THEN 16 ELSE 0)
    + (IF (a \div 32) % 2 = 1 /\ (b \div 32) % 2 = 1 THEN 32 ELSE 0)
    + (IF (a \div 64) % 2 = 1 /\ (b \div 64) % 2 = 1 THEN 64 ELSE 0)
    + (IF (a \div 128) % 2 = 1 /\ (b \div 128) % 2 = 1 THEN 128 ELSE 0)

bitor(a, b) ==
    (IF a % 2 = 1 \/ b % 2 = 1 THEN 1 ELSE 0)
    + (IF (a \div 2) % 2 = 1 \/ (b \div 2) % 2 = 1 THEN 2 ELSE 0)
    + (IF (a \div 4) % 2 = 1 \/ (b \div 4) % 2 = 1 THEN 4 ELSE 0)
    + (IF (a \div 8) % 2 = 1 \/ (b \div 8) % 2 = 1 THEN 8 ELSE 0)
    + (IF (a \div 16) % 2 = 1 \/ (b \div 16) % 2 = 1 THEN 16 ELSE 0)
    + (IF (a \div 32) % 2 = 1 \/ (b \div 32) % 2 = 1 THEN 32 ELSE 0)
    + (IF (a \div 64) % 2 = 1 \/ (b \div 64) % 2 = 1 THEN 64 ELSE 0)
    + (IF (a \div 128) % 2 = 1 \/ (b \div 128) % 2 = 1 THEN 128 ELSE 0)

\* Complement of all 8 bits.
bitnot(a) == 255 - a

mul(a, b) == (a * b) % 256

add(a, b) == (a + b) % 256

sub(a, b) == (a - b + 256) % 256

scalar_eq(a, k) == IF a = k THEN 1 ELSE 0

cmux(sel, a, b) == IF sel # 0 THEN a ELSE b

-----------------------------------------------------------------------------
(* Character kernels.                                                      *)

compare_char(c1, c2, operator) ==
    CASE operator = "Equal"   -> (IF c1 = c2 THEN 1 ELSE 0)
      [] operator = "Less"    -> (IF c1 <= c2 THEN 1 ELSE 0)
      [] operator = "Greater" -> (IF c1 >= c2 THEN 1 ELSE 0)

compare_clear_char(c, scalar, operator) ==
    CASE operator = "Equal"   -> (IF c = scalar THEN 1 ELSE 0)
      [] operator = "Less"    -> (IF c <= scalar THEN 1 ELSE 0)
      [] operator = "Greater" -> (IF c >= scalar THEN 1 ELSE 0)

-----------------------------------------------------------------------------
(* Padding normalizer.                                                     *)

\* PopLoop that never clears previous_is_padding_zero.
RECURSIVE PopLoop_NoUpdate(_, _)
PopLoop_NoUpdate(st, i) ==
    IF i > Len(st.slice) THEN st
    ELSE LET c == st.slice[i]
             current_is_zero == scalar_eq(c, 0)
             first_non_null == bitand(st.previous_is_padding_zero,
                                      bitnot(current_is_zero))
             to_sub == mul(c, first_non_null)
         IN  PopLoop_NoUpdate([slice |-> [st.slice EXCEPT ![i] = sub(c, to_sub)],
                               previous_is_padding_zero |-> st.previous_is_padding_zero,
                               result |-> add(st.result, to_sub)],
                              i + 1)

\* The selector first_non_null that multiplies the character c.
FirstNonNull(previous_is_padding_zero, c) ==
    bitand(previous_is_padding_zero, bitnot(scalar_eq(c, 0)))

\* One iteration, at position i, of the loop of pop_first_non_zero_char; st
\* holds the slice, previous_is_padding_zero and result.
PopStep(st, i) ==
    LET c == st.slice[i]
        current_is_zero == scalar_eq(c, 0)
        first_non_null == FirstNonNull(st.previous_is_padding_zero, c)
        to_sub == mul(c, first_non_null)
    IN  [slice |-> [st.slice EXCEPT ![i] = sub(c, to_sub)],
         previous_is_padding_zero |->
             bitand(st.previous_is_padding_zero, current_is_zero),
         result |-> add(st.result, to_sub)]

RECURSIVE PopLoop(_, _)
PopLoop(st, i) ==
    IF i > Len(st.slice) THEN st
    ELSE PopLoop(PopStep(st, i), i + 1)

\* [slice |-> the slice after the call, result |-> the returned character]
PopInit(content_slice) ==
    [slice |-> content_slice,
     previous_is_padding_zero |-> create_true,
     result |-> create_zero]

pop_first_non_zero_char(content_slice) ==
    LET st == PopLoop(PopInit(content_slice), 1)
    IN  [slice |-> st.slice, result |-> st.result]

\* `iters` iterations of the loop shared by both normalizers:
\* push the popped character, then shift the working view by one.
\* One iteration of the loop of remove_initial_padding: push the popped
\* byte, then shift the view by one; dropped is the byte the shift leaves
\* behind, as it is at that moment.
NormStep_KeepByte(result_content, prev_content_slice) ==
    LET p == pop_first_non_zero_char(prev_content_slice)
    IN  [result_content |-> Append(result_content, p.result),
         prev_content_slice |-> Tail(prev_content_slice),
         dropped |-> Head(prev_content_slice)]

NormStep(result_content, prev_content_slice) ==
    LET p == pop_first_non_zero_char(prev_content_slice)
    IN  [result_content |-> Append(result_content, p.result),
         prev_content_slice |-> Tail(p.slice),
         dropped |-> Head(p.slice)]

RECURSIVE NormLoop(_, _, _)
NormLoop(result_content, prev_content_slice, iters) ==
    IF iters = 0 THEN result_content
    ELSE LET st == NormStep(result_content, prev_content_slice)
         IN  NormLoop(st.result_content, st.prev_content_slice, iters - 1)

\* remove_initial_padding with the loop bounds of the _assign variant.
remove_initial_padding_Short(s) ==
    [content |-> NormLoop(<< >>, s.content,
                          IF Len(s.content) = 0 THEN 0 ELSE Len(s.content) - 1),
     padding |-> "Final",
     length  |-> s.length]

remove_initial_padding(s) ==
    [content |-> NormLoop(<< >>, s.content, Len(s.content)),
     padding |-> "Final",
     length  |-> s.length]

\* for _ in 1..s.content.len(): one iteration fewer (none for an empty buffer)
remove_initial_padding_assign(s) ==
    [content |-> NormLoop(<< >>, s.content,
                          IF Len(s.content) = 0 THEN 0 ELSE Len(s.content) - 1),
     padding |-> "Final",
     length  |-> s.length]

NoInitPadding(s) == s.padding \in {"None", "Final"}

\* The operand a dispatcher hands to its kernel.
Normalized(s) == IF NoInitPadding(s) THEN s ELSE remove_initial_padding(s)

-----------------------------------------------------------------------------
(* No-initial-padding kernels.  A loop `for n in 0..m` is the recursion    *)
(* over n = 1..m (sequences are 1-based); the byte the code reads at the   *)
(* 0-based index k is content[k + 1].                                      *)

RECURSIVE EqLoop(_, _, _, _, _)
EqLoop(c1, c2, n, m, result) ==
    IF n > m THEN result
    ELSE EqLoop(c1, c2, n + 1, m,
                bitand(result, compare_char(c1[n], c2[n], "Equal")))

\* eq_no_init_padding without the check of the byte after the shorter buffer.
eq_no_init_padding_NoTail(s1, s2) ==
    EqLoop(s1.content, s2.content, 1, Min(Len(s1.content), Len(s2.content)),
           create_true)

eq_no_init_padding(s1, s2) ==
    LET l1 == Len(s1.content)
        l2 == Len(s2.content)
        result == EqLoop(s1.content, s2.content, 1, Min(l1, l2), create_true)
    IN  IF l1 > l2 THEN bitand(result, scalar_eq(s1.content[l2 + 1], 0))
        ELSE IF l2 > l1 THEN bitand(result, scalar_eq(s2.content[l1 + 1], 0))
        ELSE result

RECURSIVE StartsWithLoop(_, _, _, _, _)
StartsWithLoop(s, prefix, n, m, result) ==
    IF n > m THEN result
    ELSE StartsWithLoop(s, prefix, n + 1, m,
            bitand(result,
                   IF prefix.padding = "None"
                   THEN compare_char(s.content[n], prefix.content[n], "Equal")
                   ELSE bitor(compare_char(s.content[n], prefix.content[n], "Equal"),
                              scalar_eq(prefix.content[n], 0))))

\* starts_with_encrypted_no_init_padding without the check of the prefix byte
\* after the buffer of s.
starts_with_encrypted_no_init_padding_NoTail(s, prefix) ==
    StartsWithLoop(s, prefix, 1, Min(Len(s.content), Len(prefix.content)),
                   create_true)

starts_with_encrypted_no_init_padding(s, prefix) ==
    LET ls == Len(s.content)
        lp == Len(prefix.content)
        result == StartsWithLoop(s, prefix, 1, Min(ls, lp), create_true)
    IN  IF lp > ls THEN bitand(result, scalar_eq(prefix.content[ls + 1], 0))
        ELSE result

RECURSIVE EqClearLoop(_, _, _, _, _)
EqClearLoop(c1, s2, n, m, result) ==
    IF n > m THEN result
    ELSE EqClearLoop(c1, s2, n + 1, m,
                     bitand(result, compare_clear_char(c1[n], s2[n], "Equal")))

\* eq_clear_no_init_padding without the check of the byte after the clear string.
eq_clear_no_init_padding_NoTail(s1, s2) ==
    IF Len(s2) > Len(s1.content) THEN create_zero
    ELSE EqClearLoop(s1.content, s2, 1, Min(Len(s1.content), Len(s2)), create_true)

eq_clear_no_init_padding(s1, s2) ==
    LET l1 == Len(s1.content)
        l2 == Len(s2)
    IN  IF l2 > l1 THEN create_zero
        ELSE LET result == EqClearLoop(s1.content, s2, 1, Min(l1, l2), create_true)
             IN  IF l1 > l2 THEN bitand(result, scalar_eq(s1.content[l2 + 1], 0))
                 ELSE result

RECURSIVE StartsWithClearLoop(_, _, _, _, _)
StartsWithClearLoop(c, prefix, n, m, result) ==
    IF n > m THEN result
    ELSE StartsWithClearLoop(c, prefix, n + 1, m,
                     bitand(result, compare_clear_char(c[n], prefix[n], "Equal")))

starts_with_clear_no_init_padding(s, prefix) ==
    StartsWithClearLoop(s.content, prefix, 1, Min(Len(s.content), Len(prefix)),
                        create_true)

FirstDiff_NoAnd(equal_up_to_n_minus_1, equal_up_to_n) ==
    bitnot(equal_up_to_n)

\* The first-difference selector handed to cmux.
FirstDiff(equal_up_to_n_minus_1, equal_up_to_n) ==
    bitand(equal_up_to_n_minus_1, bitnot(equal_up_to_n))

\* CompareStep without the closing equal_up_to_n_minus_1 = equal_up_to_n.
CompareStep_NoUpdate(c1, c2, operator, n, st) ==
    LET equal_up_to_n == bitand(st.equal_up_to_n_minus_1,
                                compare_char(c1[n], c2[n], "Equal"))
        result == cmux(FirstDiff(st.equal_up_to_n_minus_1, equal_up_to_n),
                       compare_char(c1[n], c2[n], operator),
                       st.result)
    IN  [result |-> result,
         equal_up_to_n_minus_1 |-> st.equal_up_to_n_minus_1,
         equal_up_to_n |-> equal_up_to_n]

\* One iteration, at position n, of the lexicographic fold of
\* compare_no_init_padding; st holds result, equal_up_to_n_minus_1 and
\* equal_up_to_n.
CompareStep(c1, c2, operator, n, st) ==
    LET equal_up_to_n == bitand(st.equal_up_to_n_minus_1,
                                compare_char(c1[n], c2[n], "Equal"))
        result == cmux(FirstDiff(st.equal_up_to_n_minus_1, equal_up_to_n),
                       compare_char(c1[n], c2[n], operator),
                       st.result)
    IN  [result |-> result,
         equal_up_to_n_minus_1 |-> equal_up_to_n,
         equal_up_to_n |-> equal_up_to_n]

RECURSIVE CompareLoop(_, _, _, _, _, _)
CompareLoop(c1, c2, operator, n, m, st) ==
    IF n > m THEN st
    ELSE CompareLoop(c1, c2, operator, n + 1, m, CompareStep(c1, c2, operator, n, st))

\* The same iteration in compare_clear_no_init_padding, against clear bytes.
CompareClearStep(c1, s2, operator, n, st) ==
    LET equal_up_to_n == bitand(st.equal_up_to_n_minus_1,
                                compare_clear_char(c1[n], s2[n], "Equal"))
        result == cmux(FirstDiff(st.equal_up_to_n_minus_1, equal_up_to_n),
                       compare_clear_char(c1[n], s2[n], operator),
                       st.result)
    IN  [result |-> result,
         equal_up_to_n_minus_1 |-> equal_up_to_n,
         equal_up_to_n |-> equal_up_to_n]

RECURSIVE CompareClearLoop(_, _, _, _, _, _)
CompareClearLoop(c1, s2, operator, n, m, st) ==
    IF n > m THEN st
    ELSE CompareClearLoop(c1, s2, operator, n + 1, m,
                          CompareClearStep(c1, s2, operator, n, st))

CompareInit_NotEqual ==
    [result |-> create_zero,
     equal_up_to_n_minus_1 |-> create_zero,
     equal_up_to_n |-> create_zero]

CompareInit ==
    [result |-> create_zero,
     equal_up_to_n_minus_1 |-> create_true,
     equal_up_to_n |-> create_true]

\* compare_no_init_padding taking equal common positions as "equal" whatever
\* the longer buffer holds after them.
compare_no_init_padding_NoTail(s1, s2, operator) ==
    LET st == CompareLoop(s1.content, s2.content, operator, 1,
                          Min(Len(s1.content), Len(s2.content)), CompareInit)
    IN  bitor(st.result, st.equal_up_to_n)

\* What compare_no_init_padding returns after its loop ended in st.
CompareTail(s1, s2, operator, st) ==
    LET l1 == Len(s1.content)
        l2 == Len(s2.content)
    IN  IF l1 > l2
        THEN (IF operator = "Greater"
              THEN bitor(st.result, st.equal_up_to_n)
              ELSE bitor(st.result,
                         bitand(st.equal_up_to_n, scalar_eq(s1.content[l2 + 1], 0))))
        ELSE IF l2 > l1
        THEN (IF operator = "Less"
              THEN bitor(st.result, st.equal_up_to_n)
              ELSE bitor(st.result,
                         bitand(st.equal_up_to_n, scalar_eq(s2.content[l1 + 1], 0))))
        ELSE bitor(st.result, st.equal_up_to_n)

compare_no_init_padding(s1, s2, operator) ==
    CompareTail(s1, s2, operator,
                CompareLoop(s1.content, s2.content, operator, 1,
                            Min(Len(s1.content), Len(s2.content)), CompareInit))

\* compare_clear_no_init_padding taking equal common positions as "equal"
\* whatever follows them in the buffer or in the clear string.
compare_clear_no_init_padding_NoTail(s1, s2, operator) ==
    LET st == CompareClearLoop(s1.content, s2, operator, 1,
                               Min(Len(s1.content), Len(s2)), CompareInit)
    IN  bitor(st.result, st.equal_up_to_n)

\* What compare_clear_no_init_padding returns after its loop ended in st.
CompareClearTail(s1, s2, operator, st) ==
    LET l1 == Len(s1.content)
        l2 == Len(s2)
    IN  IF l1 > l2
        THEN (IF operator = "Greater"
              THEN bitor(st.result, st.equal_up_to_n)
              ELSE bitor(st.result,
                         bitand(st.equal_up_to_n, scalar_eq(s1.content[l2 + 1], 0))))
        ELSE IF l2 > l1
        THEN (IF operator = "Less"
              THEN bitor(st.result, st.equal_up_to_n)
              ELSE st.result)
        ELSE bitor(st.result, st.equal_up_to_n)

compare_clear_no_init_padding(s1, s2, operator) ==
    CompareClearTail(s1, s2, operator,
                     CompareClearLoop(s1.content, s2, operator, 1,
                                      Min(Len(s1.content), Len(s2)), CompareInit))

-----------------------------------------------------------------------------
(* Dispatchers.  Each returns [ret |-> the plaintext of the returned       *)
(* ciphertext, kernel |-> << >> when it returned self.create_zero() early, *)
(* else <<the operands it handed to its kernel>>].                         *)

IsClear(length) == length.kind = "Clear"

FastPath == [ret |-> create_zero, kernel |-> << >>]

eq(s1, s2) ==
    IF IsClear(s1.length) /\ IsClear(s2.length) /\ s1.length.n # s2.length.n
    THEN FastPath
    ELSE LET a == Normalized(s1)
             b == Normalized(s2)
         IN  [ret |-> eq_no_init_padding(a, b), kernel |-> << [s1 |-> a, s2 |-> b] >>]

starts_with_encrypted_OneFastPath(s, prefix) ==
    IF IsClear(s.length) /\ IsClear(prefix.length) /\ prefix.length.n > s.length.n
    THEN FastPath
    ELSE LET a == Normalized(s)
             b == Normalized(prefix)
         IN  [ret |-> starts_with_encrypted_no_init_padding(a, b),
              kernel |-> << [s1 |-> a, s2 |-> b] >>]

starts_with_encrypted(s, prefix) ==
    IF IsClear(s.length) /\ IsClear(prefix.length) /\ prefix.length.n > s.length.n
    THEN FastPath
    ELSE IF IsClear(prefix.length) /\ prefix.length.n > Len(s.content)
    THEN FastPath
    ELSE LET a == Normalized(s)
             b == Normalized(prefix)
         IN  [ret |-> starts_with_encrypted_no_init_padding(a, b),
              kernel |-> << [s1 |-> a, s2 |-> b] >>]

eq_clear(s1, s2) ==
    IF IsClear(s1.length) /\ s1.length.n # Len(s2)
    THEN FastPath
    ELSE LET a == Normalized(s1)
         IN  [ret |-> eq_clear_no_init_padding(a, s2), kernel |-> << [s1 |-> a, s2 |-> s2] >>]

\* starts_with_clear without the early return on the buffer length.
starts_with_clear_NoBufferCheck(s, prefix) ==
    IF IsClear(s.length) /\ Len(prefix) > s.length.n
    THEN FastPath
    ELSE LET a == Normalized(s)
         IN  [ret |-> starts_with_clear_no_init_padding(a, prefix),
              kernel |-> << [s1 |-> a, s2 |-> prefix] >>]

starts_with_clear(s, prefix) ==
    IF IsClear(s.length) /\ Len(prefix) > s.length.n
    THEN FastPath
    ELSE IF Len(prefix) > Len(s.content)
    THEN FastPath
    ELSE LET a == Normalized(s)
         IN  [ret |-> starts_with_clear_no_init_padding(a, prefix),
              kernel |-> << [s1 |-> a, s2 |-> prefix] >>]

compare(s1, s2, operator) ==
    LET a == Normalized(s1)
        b == Normalized(s2)
    IN  [ret |-> compare_no_init_padding(a, b, operator),
         kernel |-> << [s1 |-> a, s2 |-> b] >>]

compare_clear(s1, s2, operator) ==
    LET a == Normalized(s1)
    IN  [ret |-> compare_clear_no_init_padding(a, s2, operator),
         kernel |-> << [s1 |-> a, s2 |-> s2] >>]

le(s1, s2) == compare(s1, s2, "Less")

ge_Less(s1, s2) == compare(s1, s2, "Less")

ge(s1, s2) == compare(s1, s2, "Greater")

le_clear(s1, s2) == compare_clear(s1, s2, "Less")

ge_clear(s1, s2) == compare_clear(s1, s2, "Greater")

-----------------------------------------------------------------------------
(* Well-formed operands.                                                   *)

\* The plaintext of a buffer: its non-zero bytes in order.
RECURSIVE Plain(_)
Plain(c) ==
    IF c = << >> THEN << >>
    ELSE IF Head(c) = 0 THEN Plain(Tail(c)) ELSE <<Head(c)>> \o Plain(Tail(c))

NoZero(c) == \A i \in 1..Len(c) : c[i] # 0

\* zeros only in a trailing suffix
ZerosFinal(c) == \A i, j \in 1..Len(c) : (i < j /\ c[i] = 0) => c[j] = 0

\* zeros only in a leading prefix
ZerosInitial(c) == \A i, j \in 1..Len(c) : (i < j /\ c[j] = 0) => c[i] = 0

\* zeros at both ends, never between two non-zero bytes
ZerosAtEnds(c) ==
    \A i, j, k \in 1..Len(c) : (i < j /\ j < k /\ c[i] # 0 /\ c[k] # 0) => c[j] # 0

PaddingOk(c, padding) ==
    CASE padding = "None"            -> NoZero(c)
      [] padding = "Final"           -> ZerosFinal(c)
      [] padding = "Initial"         -> ZerosInitial(c)
      [] padding = "InitialAndFinal" -> ZerosAtEnds(c)

Paddings == {"None", "Final", "Initial", "InitialAndFinal"}

Buffers == UNION {[1..b -> Bytes] : b \in 0..MaxLen}

\* FheStrLength::Clear(n) is public, FheStrLength::Encrypted(_) hides n.
Lengths(c) == {[kind |-> k, n |-> Len(Plain(c))] : k \in {"Clear", "Encrypted"}}

FheStrings ==
    UNION {{[content |-> c, padding |-> p, length |-> l] :
                p \in {q \in Paddings : PaddingOk(c, q)}, l \in Lengths(c)} :
           c \in Buffers}

\* An operand of a no-init-padding kernel: no zero before a non-zero byte.
KernelStrings == {s \in FheStrings : NoInitPadding(s)}

\* A clear &str: no zero byte.
ClearStrings == {c \in Buffers : NoZero(c)}

\* A slice handed to pop_first_non_zero_char: any bytes, zeros anywhere.
SliceBytes == Bytes \cup {1, 255}

Slices == UNION {[1..b -> SliceBytes] : b \in 0..MaxLen}

\* Stands for an operand the called function does not take.
NoString == [content |-> << >>, padding |-> "None", length |-> [kind |-> "Clear", n |-> 0]]

-----------------------------------------------------------------------------
(* The homomorphic operations each function performs, in the order it      *)
(* performs them: the name of every integer_key / create_* call.           *)

\* Positions of the non-zero bytes of a slice.
NonZeroAt(c) == {i \in 1..Len(c) : c[i] # 0}

First(S) == CHOOSE i \in S : \A j \in S : i <= j

RECURSIVE Flatten(_)
Flatten(seqs) == IF seqs = << >> THEN << >> ELSE Head(seqs) \o Flatten(Tail(seqs))

compare_char_ops(c1, c2, operator) ==
    CASE operator = "Equal"   -> <<"eq">>
      [] operator = "Less"    -> <<"le">>
      [] operator = "Greater" -> <<"ge">>

compare_clear_char_ops(c, scalar, operator) ==
    CASE operator = "Equal"   -> <<"scalar_eq">>
      [] operator = "Less"    -> <<"scalar_le">>
      [] operator = "Greater" -> <<"scalar_ge">>

\* A pop that stops at the first non-zero character it meets.
pop_first_non_zero_char_ops_Stop(content_slice) ==
    <<"create_true", "create_zero">>
        \o Flatten([i \in 1..(IF NonZeroAt(content_slice) = {} THEN Len(content_slice)
                               ELSE First(NonZeroAt(content_slice))) |->
                       <<"scalar_eq", "bitnot", "bitand", "mul",
                         "add_assign", "sub_assign", "bitand_assign">>])

pop_first_non_zero_char_ops(content_slice) ==
    <<"create_true", "create_zero">>
        \o Flatten([i \in 1..Len(content_slice) |->
                       <<"scalar_eq", "bitnot", "bitand", "mul",
                         "add_assign", "sub_assign", "bitand_assign">>])

RECURSIVE NormLoop_ops(_, _)
NormLoop_ops(prev_content_slice, iters) ==
    IF iters = 0 THEN << >>
    ELSE pop_first_non_zero_char_ops(prev_content_slice)
             \o NormLoop_ops(NormStep(<< >>, prev_content_slice).prev_content_slice,
                             iters - 1)

remove_initial_padding_ops(s) == NormLoop_ops(s.content, Len(s.content))

remove_initial_padding_assign_ops(s) ==
    NormLoop_ops(s.content, IF Len(s.content) = 0 THEN 0 ELSE Len(s.content) - 1)

\* The match on the padding tag in front of a kernel.
Normalized_ops(s) == IF NoInitPadding(s) THEN << >> ELSE remove_initial_padding_ops(s)

eq_no_init_padding_ops(s1, s2) ==
    <<"create_true">>
        \o Flatten([n \in 1..Min(Len(s1.content), Len(s2.content)) |->
                       compare_char_ops(s1.content[n], s2.content[n], "Equal")
                           \o <<"bitand_assign">>])
        \o (IF Len(s1.content) # Len(s2.content)
            THEN <<"scalar_eq", "bitand">> ELSE << >>)

starts_with_encrypted_no_init_padding_ops(s, prefix) ==
    <<"create_true">>
        \o Flatten([n \in 1..Min(Len(s.content), Len(prefix.content)) |->
                       compare_char_ops(s.content[n], prefix.content[n], "Equal")
                           \o (IF prefix.padding = "None" THEN << >>
                               ELSE <<"scalar_eq", "bitor">>)
                           \o <<"bitand_assign">>])
        \o (IF Len(prefix.content) > Len(s.content)
            THEN <<"scalar_eq", "bitand">> ELSE << >>)

eq_clear_no_init_padding_ops(s1, s2) ==
    IF Len(s2) > Len(s1.content) THEN <<"create_zero">>
    ELSE <<"create_true">>
             \o Flatten([n \in 1..Min(Len(s1.content), Len(s2)) |->
                            compare_clear_char_ops(s1.content[n], s2[n], "Equal")
                                \o <<"bitand_assign">>])
             \o (IF Len(s1.content) > Len(s2)
                 THEN <<"scalar_eq", "bitand">> ELSE << >>)

starts_with_clear_no_init_padding_ops(s, prefix) ==
    <<"create_true">>
        \o Flatten([n \in 1..Min(Len(s.content), Len(prefix)) |->
                       compare_clear_char_ops(s.content[n], prefix[n], "Equal")
                           \o <<"bitand_assign">>])

compare_no_init_padding_ops(s1, s2, operator) ==
    <<"create_zero", "create_true", "create_true">>
        \o Flatten([n \in 1..Min(Len(s1.content), Len(s2.content)) |->
                       compare_char_ops(s1.content[n], s2.content[n], "Equal")
                           \o <<"bitand", "bitnot", "bitand">>
                           \o compare_char_ops(s1.content[n], s2.content[n], operator)
                           \o <<"cmux">>])
        \o (IF Len(s1.content) > Len(s2.content)
            THEN (IF operator = "Greater" THEN <<"bitor">>
                  ELSE <<"scalar_eq", "bitand", "bitor">>)
            ELSE IF Len(s2.content) > Len(s1.content)
            THEN (IF operator = "Less" THEN <<"bitor">>
                  ELSE <<"scalar_eq", "bitand", "bitor">>)
            ELSE <<"bitor">>)

compare_clear_no_init_padding_ops(s1, s2, operator) ==
    <<"create_zero", "create_true", "create_true">>
        \o Flatten([n \in 1..Min(Len(s1.content), Len(s2)) |->
                       compare_clear_char_ops(s1.content[n], s2[n], "Equal")
                           \o <<"bitand", "bitnot", "bitand">>
                           \o compare_clear_char_ops(s1.content[n], s2[n], operator)
                           \o <<"cmux">>])
        \o (IF Len(s1.content) > Len(s2)
            THEN (IF operator = "Greater" THEN <<"bitor">>
                  ELSE <<"scalar_eq", "bitand", "bitor">>)
            ELSE IF Len(s2) > Len(s1.content)
            THEN (IF operator = "Less" THEN <<"bitor">> ELSE << >>)
            ELSE <<"bitor">>)

eq_ops(s1, s2) ==
    IF IsClear(s1.length) /\ IsClear(s2.length) /\ s1.length.n # s2.length.n
    THEN <<"create_zero">>
    ELSE Normalized_ops(s1) \o Normalized_ops(s2)
             \o eq_no_init_padding_ops(Normalized(s1), Normalized(s2))

starts_with_encrypted_ops(s, prefix) ==
    IF IsClear(s.length) /\ IsClear(prefix.length) /\ prefix.length.n > s.length.n
    THEN <<"create_zero">>
    ELSE IF IsClear(prefix.length) /\ prefix.length.n > Len(s.content)
    THEN <<"create_zero">>
    ELSE Normalized_ops(s) \o Normalized_ops(prefix)
             \o starts_with_encrypted_no_init_padding_ops(Normalized(s),
                                                          Normalized(prefix))

eq_clear_ops(s1, s2) ==
    IF IsClear(s1.length) /\ s1.length.n # Len(s2)
    THEN <<"create_zero">>
    ELSE Normalized_ops(s1) \o eq_clear_no_init_padding_ops(Normalized(s1), s2)

starts_with_clear_ops(s, prefix) ==
    IF IsClear(s.length) /\ Len(prefix) > s.length.n
    THEN <<"create_zero">>
    ELSE IF Len(prefix) > Len(s.content)
    THEN <<"create_zero">>
    ELSE Normalized_ops(s) \o starts_with_clear_no_init_padding_ops(Normalized(s), prefix)

compare_ops(s1, s2, operator) ==
    Normalized_ops(s1) \o Normalized_ops(s2)
        \o compare_no_init_padding_ops(Normalized(s1), Normalized(s2), operator)

compare_clear_ops(s1, s2, operator) ==
    Normalized_ops(s1) \o compare_clear_no_init_padding_ops(Normalized(s1), s2, operator)

\* The operations of the call f on the given operands.
CallOps(f, a, b, c, slice, operator) ==
    CASE f = "eq"                            -> eq_ops(a, b)
      [] f = "starts_with_encrypted"         -> starts_with_encrypted_ops(a, b)
      [] f = "le"                            -> compare_ops(a, b, "Less")
      [] f = "ge"                            -> compare_ops(a, b, "Greater")
      [] f = "compare"                       -> compare_ops(a, b, operator)
      [] f = "eq_clear"                      -> eq_clear_ops(a, c)
      [] f = "starts_with_clear"             -> starts_with_clear_ops(a, c)
      [] f = "le_clear"                      -> compare_clear_ops(a, c, "Less")
      [] f = "ge_clear"                      -> compare_clear_ops(a, c, "Greater")
      [] f = "compare_clear"                 -> compare_clear_ops(a, c, operator)
      [] f = "remove_initial_padding"        -> remove_initial_padding_ops(a)
      [] f = "remove_initial_padding_assign" -> remove_initial_padding_assign_ops(a)
      [] f = "pop_first_non_zero_char"       -> pop_first_non_zero_char_ops(slice)

-----------------------------------------------------------------------------
(* The state machine: one call of one public function.                     *)

VARIABLES
    op,             \* the function called
    pc,             \* "call" before it runs, "done" after it returned
    s1,             \* first FheString operand (s, s1); mutated by the _assign normalizer
    s2,             \* second FheString operand (s2, prefix)
    clear,          \* the clear &str operand (s2, prefix)
    content_slice,  \* the &mut [FheAsciiChar] of pop_first_non_zero_char
    ret,            \* << >>, or <<plaintext of the returned ciphertext>>
    out,            \* << >>, or <<the FheString returned>>
    kernel,         \* << >>, or <<operands handed to the no-init-padding kernel>>
    operator,       \* the std::cmp::Ordering of compare / compare_clear, else "none"
    frame           \* << >>, or <<locals of the loop being stepped through>>

vars == <<op, pc, s1, s2, clear, content_slice, ret, out, kernel, operator, frame>>

Operators == {"Less", "Equal", "Greater"}

EncOps == {"eq", "starts_with_encrypted", "le", "ge", "compare"}

ClearOps == {"eq_clear", "starts_with_clear", "le_clear", "ge_clear", "compare_clear"}

CompareOps == {"compare", "compare_clear"}

KernelOps == {"compare_no_init_padding", "compare_clear_no_init_padding"}

NormOps == {"remove_initial_padding", "remove_initial_padding_assign"}

SliceOps == {"pop_first_non_zero_char"}

Ops == EncOps \cup ClearOps \cup NormOps \cup SliceOps

\* The state before a call of one of the functions `ops`.
InitOf(ops) ==
    /\ op \in ops
    /\ pc = "call"
    /\ s1 \in (IF op \in SliceOps THEN {NoString}
               ELSE IF op \in KernelOps THEN KernelStrings
               ELSE FheStrings)
    /\ s2 \in (IF op \in EncOps THEN FheStrings
               ELSE IF op = "compare_no_init_padding" THEN KernelStrings
               ELSE {NoString})
    /\ clear \in (IF op \in ClearOps \cup {"compare_clear_no_init_padding"}
                  THEN ClearStrings ELSE {<< >>})
    /\ content_slice \in (IF op \in SliceOps THEN Slices ELSE {<< >>})
    /\ ret = << >>
    /\ out = << >>
    /\ kernel = << >>
    /\ operator \in (IF op \in CompareOps \cup KernelOps THEN Operators ELSE {"none"})
    /\ frame = << >>

Init == InitOf(Ops)

\* A dispatcher returns r.
Returns(r) ==
    /\ pc' = "done"
    /\ ret' = <<r.ret>>
    /\ kernel' = r.kernel
    /\ UNCHANGED <<op, s1, s2, clear, content_slice, out, operator, frame>>

Eq == pc = "call" /\ op = "eq" /\ Returns(eq(s1, s2))

StartsWithEncrypted ==
    pc = "call" /\ op = "starts_with_encrypted" /\ Returns(starts_with_encrypted(s1, s2))

EqClear == pc = "call" /\ op = "eq_clear" /\ Returns(eq_clear(s1, clear))

StartsWithClear ==
    pc = "call" /\ op = "starts_with_clear" /\ Returns(starts_with_clear(s1, clear))

Le == pc = "call" /\ op = "le" /\ Returns(le(s1, s2))

Ge == pc = "call" /\ op = "ge" /\ Returns(ge(s1, s2))

LeClear == pc = "call" /\ op = "le_clear" /\ Returns(le_clear(s1, clear))

GeClear == pc = "call" /\ op = "ge_clear" /\ Returns(ge_clear(s1, clear))

Compare == pc = "call" /\ op = "compare" /\ Returns(compare(s1, s2, operator))

CompareClear ==
    pc = "call" /\ op = "compare_clear" /\ Returns(compare_clear(s1, clear, operator))

PopFirstNonZeroChar ==
    /\ pc = "call" /\ op = "pop_first_non_zero_char"
    /\ LET p == pop_first_non_zero_char(content_slice)
       IN  /\ content_slice' = p.slice
           /\ ret' = <<p.result>>
    /\ pc' = "done"
    /\ UNCHANGED <<op, s1, s2, clear, out, kernel, operator, frame>>

RemoveInitialPadding ==
    /\ pc = "call" /\ op = "remove_initial_padding"
    /\ out' = <<remove_initial_padding(s1)>>
    /\ pc' = "done"
    /\ UNCHANGED <<op, s1, s2, clear, content_slice, ret, kernel, operator, frame>>

RemoveInitialPaddingAssign ==
    /\ pc = "call" /\ op = "remove_initial_padding_assign"
    /\ s1' = remove_initial_padding_assign(s1)
    /\ pc' = "done"
    /\ UNCHANGED <<op, s2, clear, content_slice, ret, out, kernel, operator, frame>>

Next ==
    \/ Eq
    \/ StartsWithEncrypted
    \/ EqClear
    \/ StartsWithClear
    \/ Le
    \/ Ge
    \/ LeClear
    \/ GeClear
    \/ Compare
    \/ CompareClear
    \/ PopFirstNonZeroChar
    \/ RemoveInitialPadding
    \/ RemoveInitialPaddingAssign

Spec == Init /\ [][Next]_vars

\* One specification per family of functions.
NextEq == Eq

SpecEq == InitOf({"eq"}) /\ [][NextEq]_vars

NextOrd == Le \/ Ge

SpecOrd == InitOf({"le", "ge"}) /\ [][NextOrd]_vars

NextStartsWith == StartsWithEncrypted

SpecStartsWith == InitOf({"starts_with_encrypted"}) /\ [][NextStartsWith]_vars

NextClear == EqClear \/ StartsWithClear \/ LeClear \/ GeClear

SpecClear ==
    InitOf({"eq_clear", "starts_with_clear", "le_clear", "ge_clear"})
        /\ [][NextClear]_vars

NextNorm == PopFirstNonZeroChar \/ RemoveInitialPadding \/ RemoveInitialPaddingAssign

SpecNorm == InitOf(NormOps \cup SliceOps) /\ [][NextNorm]_vars

-----------------------------------------------------------------------------
(* The loops, one iteration per step.  frame holds the locals of the loop  *)
(* and, as history, what each iteration computed.                          *)

\* compare_no_init_padding: locals before the loop.
CompareNoInitPaddingEnter ==
    /\ pc = "call" /\ op = "compare_no_init_padding"
    /\ frame' = << [n |-> 1, st |-> CompareInit, selector |-> << >>,
                    complement |-> << >>, trace |-> << >>] >>
    /\ pc' = "loop"
    /\ UNCHANGED <<op, s1, s2, clear, content_slice, ret, out, kernel, operator>>

\* compare_no_init_padding: the iteration at position n.
CompareNoInitPaddingIter ==
    /\ pc = "loop" /\ op = "compare_no_init_padding"
    /\ frame[1].n <= Min(Len(s1.content), Len(s2.content))
    /\ LET f == frame[1]
           st == CompareStep(s1.content, s2.content, operator, f.n, f.st)
       IN  frame' = << [n |-> f.n + 1,
                        st |-> st,
                        selector |-> Append(f.selector,
                            FirstDiff(f.st.equal_up_to_n_minus_1, st.equal_up_to_n)),
                        complement |-> Append(f.complement, bitnot(st.equal_up_to_n)),
                        trace |-> Append(f.trace, st)] >>
    /\ UNCHANGED <<op, pc, s1, s2, clear, content_slice, ret, out, kernel, operator>>

\* compare_no_init_padding: after the loop.
CompareNoInitPaddingExit ==
    /\ pc = "loop" /\ op = "compare_no_init_padding"
    /\ frame[1].n > Min(Len(s1.content), Len(s2.content))
    /\ ret' = <<CompareTail(s1, s2, operator, frame[1].st)>>
    /\ pc' = "done"
    /\ UNCHANGED <<op, s1, s2, clear, content_slice, out, kernel, operator, frame>>

CompareClearNoInitPaddingEnter ==
    /\ pc = "call" /\ op = "compare_clear_no_init_padding"
    /\ frame' = << [n |-> 1, st |-> CompareInit, selector |-> << >>,
                    complement |-> << >>, trace |-> << >>] >>
    /\ pc' = "loop"
    /\ UNCHANGED <<op, s1, s2, clear, content_slice, ret, out, kernel, operator>>

CompareClearNoInitPaddingIter ==
    /\ pc = "loop" /\ op = "compare_clear_no_init_padding"
    /\ frame[1].n <= Min(Len(s1.content), Len(clear))
    /\ LET f == frame[1]
           st == CompareClearStep(s1.content, clear, operator, f.n, f.st)
       IN  frame' = << [n |-> f.n + 1,
                        st |-> st,
                        selector |-> Append(f.selector,
                            FirstDiff(f.st.equal_up_to_n_minus_1, st.equal_up_to_n)),
                        complement |-> Append(f.complement, bitnot(st.equal_up_to_n)),
                        trace |-> Append(f.trace, st)] >>
    /\ UNCHANGED <<op, pc, s1, s2, clear, content_slice, ret, out, kernel, operator>>

CompareClearNoInitPaddingExit ==
    /\ pc = "loop" /\ op = "compare_clear_no_init_padding"
    /\ frame[1].n > Min(Len(s1.content), Len(clear))
    /\ ret' = <<CompareClearTail(s1, clear, operator, frame[1].st)>>
    /\ pc' = "done"
    /\ UNCHANGED <<op, s1, s2, clear, content_slice, out, kernel, operator, frame>>

\* pop_first_non_zero_char: locals before the loop.
PopEnter ==
    /\ pc = "call" /\ op = "pop_first_non_zero_char"
    /\ frame' = << [i |-> 1, st |-> PopInit(content_slice), selector |-> << >>,
                    complement |-> << >>] >>
    /\ pc' = "loop"
    /\ UNCHANGED <<op, s1, s2, clear, content_slice, ret, out, kernel, operator>>

\* pop_first_non_zero_char: the iteration on the i-th character.
PopIter ==
    /\ pc = "loop" /\ op = "pop_first_non_zero_char"
    /\ frame[1].i <= Len(content_slice)
    /\ LET f == frame[1]
       IN  frame' = << [i |-> f.i + 1,
                        st |-> PopStep(f.st, f.i),
                        selector |-> Append(f.selector,
                            FirstNonNull(f.st.previous_is_padding_zero, f.st.slice[f.i])),
                        complement |-> Append(f.complement,
                            bitnot(scalar_eq(f.st.slice[f.i], 0)))] >>
    /\ UNCHANGED <<op, pc, s1, s2, clear, content_slice, ret, out, kernel, operator>>

\* pop_first_non_zero_char: the slice was changed in place, result returned.
PopExit ==
    /\ pc = "loop" /\ op = "pop_first_non_zero_char"
    /\ frame[1].i > Len(content_slice)
    /\ content_slice' = frame[1].st.slice
    /\ ret' = <<frame[1].st.result>>
    /\ pc' = "done"
    /\ UNCHANGED <<op, s1, s2, clear, out, kernel, operator, frame>>

\* remove_initial_padding: the empty output and the view of the clone.
NormEnter ==
    /\ pc = "call" /\ op = "remove_initial_padding"
    /\ frame' = << [result_content |-> << >>,
                    prev_content_slice |-> s1.content,
                    dropped |-> << >>] >>
    /\ pc' = "loop"
    /\ UNCHANGED <<op, s1, s2, clear, content_slice, ret, out, kernel, operator>>

\* remove_initial_padding: one of its s.content.len() iterations.
NormIter ==
    /\ pc = "loop" /\ op = "remove_initial_padding"
    /\ Len(frame[1].result_content) < Len(s1.content)
    /\ LET f == frame[1]
           st == NormStep(f.result_content, f.prev_content_slice)
       IN  frame' = << [result_content |-> st.result_content,
                        prev_content_slice |-> st.prev_content_slice,
                        dropped |-> Append(f.dropped, st.dropped)] >>
    /\ UNCHANGED <<op, pc, s1, s2, clear, content_slice, ret, out, kernel, operator>>

\* remove_initial_padding: the returned FheString.
NormExit ==
    /\ pc = "loop" /\ op = "remove_initial_padding"
    /\ Len(frame[1].result_content) >= Len(s1.content)
    /\ out' = << [content |-> frame[1].result_content,
                  padding |-> "Final",
                  length  |-> s1.length] >>
    /\ pc' = "done"
    /\ UNCHANGED <<op, s1, s2, clear, content_slice, ret, kernel, operator, frame>>

NextFold ==
    \/ CompareNoInitPaddingEnter
    \/ CompareNoInitPaddingIter
    \/ CompareNoInitPaddingExit
    \/ CompareClearNoInitPaddingEnter
    \/ CompareClearNoInitPaddingIter
    \/ CompareClearNoInitPaddingExit

SpecFold == InitOf(KernelOps) /\ [][NextFold]_vars

NextNormLoop == NormEnter \/ NormIter \/ NormExit

SpecNormLoop == InitOf({"remove_initial_padding"}) /\ [][NextNormLoop]_vars

\* Every public predicate as one call, and the loops that compute selectors
\* step by step.
NextRange ==
    \/ Eq
    \/ StartsWithEncrypted
    \/ Le
    \/ Ge
    \/ Compare
    \/ EqClear
    \/ StartsWithClear
    \/ LeClear
    \/ GeClear
    \/ CompareClear
    \/ CompareNoInitPaddingEnter
    \/ CompareNoInitPaddingIter
    \/ CompareNoInitPaddingExit
    \/ CompareClearNoInitPaddingEnter
    \/ CompareClearNoInitPaddingIter
    \/ CompareClearNoInitPaddingExit
    \/ PopEnter
    \/ PopIter
    \/ PopExit

SpecRange ==
    InitOf(EncOps \cup ClearOps \cup KernelOps \cup SliceOps)
        /\ [][NextRange]_vars

\* le alone: its result is compared with ge and eq on the same operands.
NextLe == Le

SpecLe == InitOf({"le"}) /\ [][NextLe]_vars

\* compare and compare_clear called with std::cmp::Ordering::Equal.
NextCompare == Compare \/ CompareClear

InitCompareEqual == InitOf(CompareOps) /\ operator = "Equal"

SpecCompareEqual == InitCompareEqual /\ [][NextCompare]_vars

-----------------------------------------------------------------------------
(* Plaintext semantics the predicates are compared with.                   *)

Bool(b) == IF b THEN 1 ELSE 0

\* x <= y in byte-lexicographic order, a proper prefix being smaller.
RECURSIVE LexLe(_, _)
LexLe(x, y) ==
    IF x = << >> THEN TRUE
    ELSE IF y = << >> THEN FALSE
    ELSE IF Head(x) # Head(y) THEN Head(x) < Head(y)
    ELSE LexLe(Tail(x), Tail(y))

IsPrefix(p, x) == Len(p) <= Len(x) /\ SubSeq(x, 1, Len(p)) = p

Done(f) == op = f /\ pc = "done"

P1 == Plain(s1.content)

P2 == Plain(s2.content)

-----------------------------------------------------------------------------
(* Properties.                                                             *)

\* C1: eq(s1, s2) decrypts to 1 if the plaintexts (the non-zero bytes in
\* order) of s1 and s2 are equal, and to 0 otherwise, for all well-formed
\* operands, paddings, buffer lengths and Clear or Encrypted lengths.
C1_EqIffSamePlaintext == Done("eq") => ret = <<Bool(P1 = P2)>>

\* C1 witness: the kernel said 1 for differently padded buffers of different
\* lengths, one of them normalized first.
C1_Witness ==
    /\ Done("eq") /\ ret = <<1>> /\ kernel # << >>
    /\ Len(s1.content) > Len(s2.content) /\ Len(P1) = 2
    /\ s1.padding = "InitialAndFinal" /\ Head(s1.content) = 0

\* C2: le(s1, s2) decrypts to 1 iff plaintext(s1) <= plaintext(s2) in
\* byte-lexicographic order, and ge(s1, s2) to 1 iff plaintext(s1) >=
\* plaintext(s2).
C2_LeGeLexicographic ==
    /\ Done("le") => ret = <<Bool(LexLe(P1, P2))>>
    /\ Done("ge") => ret = <<Bool(LexLe(P2, P1))>>

\* C2 witness: ge said 0 because s1 is a proper prefix of s2, with s1 in the
\* longer buffer and both operands normalized.
C2_Witness ==
    /\ Done("ge") /\ ret = <<0>>
    /\ IsPrefix(P1, P2) /\ P1 # P2 /\ P1 # << >>
    /\ Len(s1.content) > Len(s2.content)
    /\ ~NoInitPadding(s1) /\ ~NoInitPadding(s2)

\* C3: starts_with_encrypted(s, prefix) decrypts to 1 iff plaintext(prefix)
\* is a byte-prefix of plaintext(s); an empty prefix always gives 1.
C3_StartsWithEncryptedIffPrefix ==
    Done("starts_with_encrypted") => ret = <<Bool(IsPrefix(P2, P1))>>

\* C3 witness: the kernel said 1 for a non-empty prefix held in a longer
\* buffer than s, both with initial padding.
C3_Witness ==
    /\ Done("starts_with_encrypted") /\ ret = <<1>> /\ kernel # << >>
    /\ P2 # << >>
    /\ Len(s2.content) > Len(s1.content) /\ s1.content # << >>
    /\ Head(s1.content) = 0 /\ Head(s2.content) = 0

\* C4: eq_clear(s, t) decrypts to 1 iff plaintext(s) = t; an all-zero buffer
\* equals only the empty string, a clear string longer than the buffer gives 0.
C4_EqClearIffSamePlaintext ==
    Done("eq_clear") => ret = <<Bool(P1 = clear)>>

\* C4 witness: the kernel said 1 for an operand with initial and final padding
\* and a hidden length.
C4_Witness ==
    /\ Done("eq_clear") /\ ret = <<1>> /\ kernel # << >>
    /\ clear # << >> /\ s1.length.kind = "Encrypted" /\ s1.content # << >>
    /\ Head(s1.content) = 0 /\ s1.content[Len(s1.content)] = 0

\* C5: le_clear(s, t) decrypts to 1 iff plaintext(s) <= t, and ge_clear(s, t)
\* to 1 iff plaintext(s) >= t, whatever the buffer length of s and the length
\* of t.
C5_LeGeClearLexicographic ==
    /\ Done("le_clear") => ret = <<Bool(LexLe(P1, clear))>>
    /\ Done("ge_clear") => ret = <<Bool(LexLe(clear, P1))>>

\* C5 witness: ge_clear said 0 for a clear string longer than the buffer that
\* the whole buffer is a prefix of.
C5_Witness ==
    /\ Done("ge_clear") /\ ret = <<0>>
    /\ Len(clear) > Len(s1.content) /\ s1.content # << >>
    /\ IsPrefix(s1.content, clear)

\* C6: starts_with_clear(s, t) decrypts to 1 iff t is a byte-prefix of
\* plaintext(s), and the dispatcher hands its kernel only a clear string no
\* longer than the buffer of s.
C6_StartsWithClearIffPrefix ==
    Done("starts_with_clear") =>
        /\ ret = <<Bool(IsPrefix(clear, P1))>>
        /\ kernel # << >> => Len(kernel[1].s2) <= Len(kernel[1].s1.content)

\* C6 witness: the dispatcher returned 0 early for a clear string longer than
\* the buffer of an operand of hidden length.
C6_Witness ==
    /\ Done("starts_with_clear") /\ ret = <<0>> /\ kernel = << >>
    /\ s1.length.kind = "Encrypted" /\ P1 # << >>
    /\ Len(clear) > Len(s1.content)
    /\ IsPrefix(P1, clear)

Zeros(n) == [i \in 1..n |-> 0]

\* The non-zero bytes of c in order, right-padded with zeros to Len(c).
PlainThenZeros(c) == Plain(c) \o Zeros(Len(c) - Len(Plain(c)))

Calls(f) == op = f /\ pc = "call"

\* C7: remove_initial_padding(s) returns a string of the same buffer length
\* holding the non-zero bytes of s in order followed by zeros, with padding
\* Final and the length field of s; s itself is unchanged.
C7_RemoveInitialPadding ==
    [][Calls("remove_initial_padding") =>
          /\ s1' = s1
          /\ out' = << [content |-> PlainThenZeros(s1.content),
                        padding |-> "Final",
                        length  |-> s1.length] >>]_vars

\* C7 witness: a string with zeros at both ends was normalized.
C7_Witness ==
    /\ Done("remove_initial_padding")
    /\ s1.padding = "InitialAndFinal" /\ Len(s1.content) = MaxLen
    /\ Head(s1.content) = 0 /\ s1.content[Len(s1.content)] = 0 /\ P1 # << >>
    /\ out # << >> /\ out[1].content # s1.content

\* C8: remove_initial_padding_assign(s) leaves s as remove_initial_padding(s)
\* would return it: same number of positions, same bytes, padding Final,
\* length unchanged.
C8_AssignAsFunctional ==
    [][Calls("remove_initial_padding_assign") =>
          s1' = remove_initial_padding(s1)]_vars

\* C9: after remove_initial_padding_assign(s) the non-zero bytes of s are
\* those before the call, in the same order, and no zero precedes a non-zero
\* byte; also for a buffer without any zero byte.
C9_AssignKeepsPlaintext ==
    [][Calls("remove_initial_padding_assign") =>
          /\ Plain(s1'.content) = Plain(s1.content)
          /\ ZerosFinal(s1'.content)]_vars

\* C10: pop_first_non_zero_char returns the byte at the leftmost non-zero
\* position, zeroes exactly that position and leaves every other position
\* unchanged; on an all-zero or empty slice it returns zero and changes
\* nothing.
C10_PopFirstNonZeroChar ==
    [][Calls("pop_first_non_zero_char") =>
          IF NonZeroAt(content_slice) = {}
          THEN /\ ret' = <<0>>
               /\ content_slice' = content_slice
          ELSE /\ ret' = <<content_slice[First(NonZeroAt(content_slice))]>>
               /\ content_slice' =
                      [content_slice EXCEPT ![First(NonZeroAt(content_slice))] = 0]]_vars

\* C10 witness: 255 was popped from behind a zero, a later non-zero byte
\* staying in place.
C10_Witness ==
    /\ Done("pop_first_non_zero_char") /\ ret = <<255>>
    /\ content_slice = <<0, 0, 97>>

\* C11: le(X, Y) and ge(X, Y) are never both 0, and they are both 1 exactly
\* when the plaintexts are equal, which is exactly when eq(X, Y) is 1.
C11_LeGeTotal ==
    Done("le") =>
        LET l == ret[1]
            g == ge(s1, s2).ret
            e == eq(s1, s2).ret
        IN  /\ l \in {0, 1} /\ g \in {0, 1}
            /\ ~(l = 0 /\ g = 0)
            /\ (l = 1 /\ g = 1) <=> (P1 = P2)
            /\ (l = 1 /\ g = 1) <=> (e = 1)

\* C11 witness: le returned 1 on equal plaintexts held in buffers of
\* different lengths and paddings, where ge and eq return 1 as well.
C11_Witness ==
    /\ Done("le") /\ ret = <<1>>
    /\ P1 = P2 /\ P1 # << >>
    /\ Len(s1.content) # Len(s2.content)
    /\ s1.padding # s2.padding
    /\ ge(s1, s2).ret = 1 /\ eq(s1, s2).ret = 1

\* C14 as stated: whenever the buffer of prefix is longer than the buffer of
\* s and prefix.length is Clear, starts_with_encrypted returns 0 without
\* running the kernel.
C14_BufferLengthFastPath ==
    (Done("starts_with_encrypted")
        /\ IsClear(s2.length) /\ Len(s2.content) > Len(s1.content))
    => (ret = <<0>> /\ kernel = << >>)

\* C14: whenever prefix.length is Clear and that clear length is greater
\* than the buffer length of s, starts_with_encrypted returns 0 without
\* running the kernel.
C14_ClearLengthFastPath ==
    (Done("starts_with_encrypted")
        /\ IsClear(s2.length) /\ s2.length.n > Len(s1.content))
    => (ret = <<0>> /\ kernel = << >>)

\* C14 witness: the length of s is encrypted, the clear length of prefix is
\* greater than the buffer of s, and 0 came back with no kernel run.
C14_Witness ==
    /\ Done("starts_with_encrypted")
    /\ ~IsClear(s1.length) /\ IsClear(s2.length)
    /\ s1.content # << >>
    /\ s2.length.n > Len(s1.content)
    /\ ret = <<0>> /\ kernel = << >>

\* C17: compare(s1, s2, Equal) is 1 exactly when the plaintexts are equal
\* and compare_clear(s, t, Equal) is 1 exactly when the plaintext of s is
\* t, so both return what eq and eq_clear return.
C17_CompareEqualIsEq ==
    /\ (Done("compare") /\ operator = "Equal") =>
           /\ ret = <<Bool(P1 = P2)>>
           /\ ret = <<eq(s1, s2).ret>>
    /\ (Done("compare_clear") /\ operator = "Equal") =>
           /\ ret = <<Bool(P1 = clear)>>
           /\ ret = <<eq_clear(s1, clear).ret>>

\* C17 witness: compare with Equal returned 1 on equal non-empty plaintexts
\* whose buffers differ in length.
C17_Witness ==
    /\ Done("compare") /\ operator = "Equal" /\ ret = <<1>>
    /\ P1 # << >> /\ P1 = P2
    /\ Len(s1.content) # Len(s2.content)

Bit == {0, 1}

Predicates == EncOps \cup ClearOps \cup KernelOps

\* A loop is being, or was, stepped through.
InLoop(f) == op = f /\ pc \in {"loop", "done"} /\ frame # << >>

\* C12: every public predicate, and each kernel behind it, returns 0 or 1;
\* in the folds of the compare kernels and in pop_first_non_zero_char the
\* 8-bit complement is 254 or 255, yet every flag and every selector that
\* is and-ed from it and handed to cmux or mul is 0 or 1.
C12_ZeroOrOne ==
    /\ (op \in Predicates /\ pc = "done") => (Len(ret) = 1 /\ ret[1] \in Bit)
    /\ \A f \in KernelOps :
           InLoop(f) =>
               /\ frame[1].st.result \in Bit
               /\ frame[1].st.equal_up_to_n \in Bit
               /\ frame[1].st.equal_up_to_n_minus_1 \in Bit
               /\ \A j \in 1..Len(frame[1].selector) :
                      /\ frame[1].complement[j] \in {254, 255}
                      /\ frame[1].selector[j] \in Bit
    /\ InLoop("pop_first_non_zero_char") =>
           /\ frame[1].st.previous_is_padding_zero \in Bit
           /\ \A j \in 1..Len(frame[1].selector) :
                  /\ frame[1].complement[j] \in {254, 255}
                  /\ frame[1].selector[j] \in Bit

\* C12 witness: a fold met a difference after an equal position, so the
\* complement was 254 and then 255 and the selector was 1 at the
\* difference, and the kernel returned.
C12_Witness ==
    /\ op = "compare_no_init_padding" /\ pc = "done" /\ frame # << >>
    /\ Len(frame[1].selector) >= 2
    /\ frame[1].complement[1] = 254 /\ frame[1].complement[2] = 255
    /\ frame[1].selector[2] = 1
    /\ ret[1] \in Bit

\* The second operand of the fold being stepped through.
FoldOther == IF op = "compare_no_init_padding" THEN s2.content ELSE clear

\* Positions of the fold at which the operands differ.
DiffAt == {j \in 1..Min(Len(s1.content), Len(FoldOther)) : s1.content[j] # FoldOther[j]}

\* What the character comparison answers on two different bytes.
Ordered(a, b) ==
    CASE operator = "Less"    -> Bool(a < b)
      [] operator = "Greater" -> Bool(a > b)
      [] operator = "Equal"   -> 0

\* C15: in the folds of compare_no_init_padding and
\* compare_clear_no_init_padding, after every iteration: the equal-so-far
\* flag is 1 exactly while no difference was met, so once 0 it stays 0; the
\* first-difference selector is 1 at the first position where the operands
\* differ and 0 at every other position; result is 0 before that position
\* and the character comparison of that position from there on.
C15_FoldInvariant ==
    \A f \in KernelOps :
        InLoop(f) =>
            LET t == frame[1].trace
                sel == frame[1].selector
            IN  /\ Len(t) = frame[1].n - 1 /\ Len(sel) = Len(t)
                /\ \A j \in 1..Len(t) :
                       /\ t[j].equal_up_to_n = Bool(\A i \in DiffAt : i > j)
                       /\ (j > 1 /\ t[j - 1].equal_up_to_n = 0) => t[j].equal_up_to_n = 0
                       /\ sel[j] = Bool(DiffAt # {} /\ j = First(DiffAt))
                       /\ t[j].result =
                              IF DiffAt # {} /\ First(DiffAt) <= j
                              THEN Ordered(s1.content[First(DiffAt)],
                                           FoldOther[First(DiffAt)])
                              ELSE 0
                /\ Cardinality({j \in 1..Len(sel) : sel[j] = 1}) <= 1

\* C15 witness: the operands differ at the second and at the third
\* position, the fold went past both, and result is the comparison at the
\* second one, which the third one would have answered differently.
C15_Witness ==
    /\ InLoop("compare_no_init_padding") /\ operator = "Less"
    /\ {2, 3} \subseteq DiffAt /\ 1 \notin DiffAt
    /\ Len(frame[1].trace) = 3
    /\ frame[1].selector = <<0, 1, 0>>
    /\ frame[1].st.result = 1
    /\ s1.content[3] > s2.content[3]

\* The first k positions of c that hold a non-zero byte.
FirstNonZeroAt(c, k) ==
    {i \in NonZeroAt(c) : Cardinality({j \in NonZeroAt(c) : j <= i}) <= k}

\* C16: after k iterations of the loop of remove_initial_padding the output
\* holds the first k non-zero bytes of the input in order, zero where the
\* input has fewer; the working copy is the input with zero at every popped
\* position; every position the view was shifted past was zero when it was
\* dropped; and the non-zero bytes of the output followed by those of the
\* remaining view are the non-zero bytes of the input in order.
C16_NormLoopInvariant ==
    InLoop("remove_initial_padding") =>
        LET c == s1.content
            f == frame[1]
            k == Len(f.result_content)
            work == f.dropped \o f.prev_content_slice
        IN  /\ k <= Len(c)
            /\ Len(f.dropped) = k
            /\ Len(f.prev_content_slice) = Len(c) - k
            /\ f.result_content = SubSeq(PlainThenZeros(c), 1, k)
            /\ \A i \in 1..Len(c) :
                   work[i] = IF i \in FirstNonZeroAt(c, k) THEN 0 ELSE c[i]
            /\ \A j \in 1..k : f.dropped[j] = 0
            /\ Plain(f.result_content) \o Plain(f.prev_content_slice) = Plain(c)

\* C16 witness: two iterations on a buffer with two leading zeros and one
\* non-zero byte: the output holds that byte and a zero, two zeros were
\* dropped and the remaining view is zero.
C16_Witness ==
    /\ InLoop("remove_initial_padding") /\ pc = "loop"
    /\ Len(s1.content) = 3 /\ s1.content[1] = 0 /\ s1.content[2] = 0
    /\ s1.content[3] # 0
    /\ frame[1].result_content = <<s1.content[3], 0>>
    /\ frame[1].dropped = <<0, 0>>
    /\ frame[1].prev_content_slice = <<0>>

\* What the server sees of an FheString: buffer length, padding tag, the
\* tag of the length and, when that is Clear, its value.
SameMeta(s, t) ==
    /\ Len(s.content) = Len(t.content)
    /\ s.padding = t.padding
    /\ s.length.kind = t.length.kind
    /\ IsClear(s.length) => s.length.n = t.length.n

\* One operand per public metadata, the same for all operands that agree
\* on them: as many bytes 97 as a Clear length says (a full buffer of them
\* when the length is encrypted), zeros before them when the tag is Initial
\* and after them otherwise.
Twin(s) ==
    LET B == Len(s.content)
        n == IF IsClear(s.length) THEN s.length.n ELSE B
        letters == [i \in 1..n |-> 97]
    IN  [content |-> IF s.padding = "Initial" THEN Zeros(B - n) \o letters
                     ELSE letters \o Zeros(B - n),
         padding |-> s.padding,
         length  |-> [kind |-> s.length.kind, n |-> n]]

TwinSlice(c) == Zeros(Len(c))

\* The call f returns self.create_zero() before any kernel runs.
EarlyReturn(f, a, b, c) ==
    CASE f = "eq"                    -> eq(a, b).kernel = << >>
      [] f = "starts_with_encrypted" -> starts_with_encrypted(a, b).kernel = << >>
      [] f = "eq_clear"              -> eq_clear(a, c).kernel = << >>
      [] f = "starts_with_clear"     -> starts_with_clear(a, c).kernel = << >>
      [] OTHER                       -> FALSE

\* C13: a call performs the homomorphic operations, and takes the early
\* return, of the call on the operands that its public metadata alone
\* determine (same buffer lengths, padding tags, length tags and Clear
\* values, same clear string and operator, other encrypted bytes); hence
\* any two calls that agree on the public metadata perform the same
\* sequence of operations and take the same early-return branch.
C13_Oblivious ==
    [][pc = "call" =>
          LET mine  == CallOps(op, s1, s2, clear, content_slice, operator)
              other == CallOps(op, Twin(s1), Twin(s2), clear,
                               TwinSlice(content_slice), operator)
          IN  /\ SameMeta(s1, Twin(s1)) /\ SameMeta(s2, Twin(s2))
              /\ mine = other
              /\ op \in EncOps \cup ClearOps =>
                     ((kernel' = << >>) <=> EarlyReturn(op, Twin(s1), Twin(s2), clear))]_vars

\* C13 witness: eq ran its kernel and returned 1 on operands with initial
\* padding whose bytes are not those of the operands their metadata
\* determine, on which eq returns 0.
C13_Witness ==
    /\ Done("eq") /\ ret = <<1>> /\ kernel # << >>
    /\ s1.padding = "Initial" /\ s2.padding = "InitialAndFinal"
    /\ s1 # Twin(s1) /\ s2 # Twin(s2)
    /\ eq(Twin(s1), Twin(s2)).ret = 0

====
